---- MODULE Spec2Model ----
(***************************************************************************)
(* GeoSpatialFilteringFilterBackend                                        *)
(* (django_elasticsearch_dsl_drf/filter_backends/filtering/geo_spatial.py) *)
(*                                                                         *)
(* Python strings are sequences of one-character strings, so that split    *)
(* and strip are computed.  Python values of more than one type are tagged *)
(* records of one shape each:                                              *)
(*   an entry of geo_spatial_filter_fields (None, str or dict with the     *)
(*     optional keys 'field' and 'lookups'):                               *)
(*       [type, str, keys, field, lookups]                                 *)
(*   an optional string (None or str): [type, str]                         *)
(*   a value of the geo_distance params (str or {'lat','lon'}):            *)
(*       [type, str, lat, lon]                                             *)
(* A dict with string keys is a function, an ordered dict (QueryDict, the  *)
(* extractor's result) a sequence of records with distinct keys, and the   *)
(* Search object the sequence of the query clauses added to it.            *)
(***************************************************************************)
EXTENDS Integers, Sequences, FiniteSets, TLC

(***************************************************************************)
(* Bounds of the model.                                                    *)
(***************************************************************************)
\* longest raw value handed to get_geo_distance_params on its own
MaxLen == 5
\* most values of one query parameter key / most values in one request
MaxValues == 2
\* most query parameter keys in one request
MaxParams == 2

(***************************************************************************)
(* String constants.                                                       *)
(***************************************************************************)
\* constants.LOOKUP_FILTER_GEO_DISTANCE
LOOKUP_FILTER_GEO_DISTANCE == <<"g","e","o","_","d","i","s","t","a","n","c","e">>
\* another geo-spatial lookup name a view may declare
GEO_POLYGON == <<"g","e","o","_","p","o","l","y","g","o","n">>
\* constants.ALL_GEO_SPATIAL_LOOKUP_FILTERS_AND_QUERIES
ALL_GEO_SPATIAL_LOOKUP_FILTERS_AND_QUERIES == <<LOOKUP_FILTER_GEO_DISTANCE>>
\* separator of field name and lookup in a query parameter key
SEPARATOR_LOOKUP_FILTER == <<"_","_">>
\* delimiter of the components of a compound lookup value
SEPARATOR_LOOKUP_VALUE == <<":">>
\* the keys and the default of the geo_distance params
DISTANCE == <<"d","i","s","t","a","n","c","e">>
DISTANCE_TYPE == <<"d","i","s","t","a","n","c","e","_","t","y","p","e">>
SLOPPY_ARC == <<"s","l","o","p","p","y","_","a","r","c">>
\* view.mapping, passed through uninterpreted
ViewMapping == <<"d","o","c">>

(***************************************************************************)
(* Python values.                                                          *)
(***************************************************************************)
PyNone == [type |-> "None", str |-> <<>>]
PyStr(s) == [type |-> "str", str |-> s]

EntryNone == [type |-> "None", str |-> <<>>, keys |-> {}, field |-> <<>>, lookups |-> <<>>]
EntryStr(s) == [type |-> "str", str |-> s, keys |-> {}, field |-> <<>>, lookups |-> <<>>]
\* a dict holding of 'field' and 'lookups' only the keys in ks
EntryDict(ks, f, ls) ==
  [type |-> "dict", str |-> <<>>, keys |-> ks,
   field |-> IF "field" \in ks THEN f ELSE <<>>,
   lookups |-> IF "lookups" \in ks THEN ls ELSE <<>>]

ParamStr(s) == [type |-> "str", str |-> s, lat |-> <<>>, lon |-> <<>>]
ParamPoint(la, lo) == [type |-> "dict", str |-> <<>>, lat |-> la, lon |-> lo]
EmptyDict == [k \in {} |-> ParamStr(<<>>)]

(***************************************************************************)
(* str.split(sep, maxsplit) and str.strip().                               *)
(***************************************************************************)
\* s[i..i+len(sep)-1] = sep
MatchAt(s, sep, i) ==
  /\ i + Len(sep) - 1 <= Len(s)
  /\ \A j \in 1..Len(sep) : s[i + j - 1] = sep[j]

\* str.find: the leftmost index at which sep occurs in s, 0 when none
Find(s, sep) ==
  IF \E i \in 1..Len(s) : MatchAt(s, sep, i)
  THEN CHOOSE i \in 1..Len(s) :
         /\ MatchAt(s, sep, i)
         /\ \A j \in 1..(i - 1) : ~MatchAt(s, sep, j)
  ELSE 0

RECURSIVE Split(_, _, _)
\* str.split(sep, maxsplit) for a non-empty sep; maxsplit = -1 is unlimited
Split(s, sep, maxsplit) ==
  LET i == Find(s, sep) IN
  IF maxsplit = 0 \/ i = 0
  THEN <<s>>
  ELSE <<SubSeq(s, 1, i - 1)>>
       \o Split(SubSeq(s, i + Len(sep), Len(s)), sep,
                IF maxsplit < 0 THEN maxsplit ELSE maxsplit - 1)

\* the ASCII characters str.strip() takes for whitespace: space, tab, newline,
\* carriage return, form feed, vertical tab and the separators 0x1c-0x1f
\* (strings of the model are ASCII)
Whitespace == {" ", "\t", "\n", "\r", "\f", "", "", "", "", ""}

IsSpace(c) == c \in Whitespace

RECURSIVE LStrip(_)
LStrip(s) == IF s # <<>> /\ IsSpace(Head(s)) THEN LStrip(Tail(s)) ELSE s

RECURSIVE RStrip(_)
RStrip(s) ==
  IF s # <<>> /\ IsSpace(s[Len(s)]) THEN RStrip(SubSeq(s, 1, Len(s) - 1)) ELSE s

\* str.strip()
Strip(s) == RStrip(LStrip(s))

\* FilterBackendMixin.split_lookup_value
split_lookup_value(value, maxsplit) == Split(value, SEPARATOR_LOOKUP_VALUE, maxsplit)

\* FilterBackendMixin.split_lookup_filter
split_lookup_filter(value, maxsplit) == Split(value, SEPARATOR_LOOKUP_FILTER, maxsplit)

\* x in t, for a tuple t
InTuple(x, t) == \E i \in 1..Len(t) : t[i] = x

(***************************************************************************)
(* prepare_filter_fields.                                                  *)
(***************************************************************************)
\* options or field (line 72): a str options is falsy when empty
OptionsOrField(options, field) ==
  IF options.type = "str" /\ options.str # <<>> THEN options.str ELSE field

\* filter_fields[field] = {'field': options or field}
NewEntry(options, field) == EntryDict({"field"}, OptionsOrField(options, field), <<>>)

\* filter_fields[field]['field'] = field
SetField(entry, field) == EntryDict(entry.keys \cup {"field"}, field, entry.lookups)

\* filter_fields[field]['lookups'] = tuple(ALL_GEO_SPATIAL_LOOKUP_FILTERS_AND_QUERIES)
SetLookups(entry) ==
  EntryDict(entry.keys \cup {"lookups"}, entry.field,
            ALL_GEO_SPATIAL_LOOKUP_FILTERS_AND_QUERIES)

\* mutant: every entry is taken for a bare declaration and replaced
IsNoneOrString_always(options) == TRUE

\* options is None or isinstance(options, string_types)
IsNoneOrString(options) == options.type \in {"None", "str"}

\* mutant: the elif sets 'field' without looking for it
PrepareField_overwrites(options, field) ==
  IF options.type \in {"None", "str"} THEN NewEntry(options, field)
  ELSE SetField(options, field)

\* the first if/elif of the loop body, for the entry read as options
PrepareField(options, field) ==
  IF IsNoneOrString(options) THEN NewEntry(options, field)
  ELSE IF "field" \notin options.keys THEN SetField(options, field)
  ELSE options

\* mutant: 'lookups' is set without looking for it
PrepareLookups_overwrites(entry) == SetLookups(entry)

\* the second if of the loop body, for the entry now stored
PrepareLookups(entry) ==
  IF "lookups" \notin entry.keys THEN SetLookups(entry) ELSE entry

\* one pass of the loop body over an entry, run without interruption
PrepareEntry(options, field) == PrepareLookups(PrepareField(options, field))

\* the view's geo_spatial_filter_fields after prepare_filter_fields(view)
prepare_filter_fields(filter_fields) ==
  [field \in DOMAIN filter_fields |-> PrepareEntry(filter_fields[field], field)]

(***************************************************************************)
(* get_geo_distance_params and apply_query_geo_distance.                   *)
(***************************************************************************)
\* d[k] = v on a dict
DictSet(d, k, v) == [x \in (DOMAIN d) \cup {k} |-> IF x = k THEN v ELSE d[x]]

\* params['distance_type'] of lines 107-110
DistanceType(values) == IF Len(values) = 4 THEN values[4] ELSE SLOPPY_ARC

\* mutant: the value is split at every delimiter
get_geo_distance_params_split_all(value, field) ==
  LET values == split_lookup_value(value, -1) IN
  IF Len(values) < 3
  THEN EmptyDict
  ELSE LET params ==
             DictSet(DictSet(EmptyDict, DISTANCE, ParamStr(values[1])),
                     field, ParamPoint(values[2], values[3]))
       IN DictSet(params, DISTANCE_TYPE, ParamStr(DistanceType(values)))

get_geo_distance_params(value, field) ==
  LET values == split_lookup_value(value, 3) IN
  IF Len(values) < 3
  THEN EmptyDict
  ELSE LET params ==
             DictSet(DictSet(EmptyDict, DISTANCE, ParamStr(values[1])),
                     field, ParamPoint(values[2], values[3]))
       IN DictSet(params, DISTANCE_TYPE, ParamStr(DistanceType(values)))

\* elasticsearch_dsl Q(name, **params)
Q(name, params) == [name |-> name, params |-> params]

\* elasticsearch_dsl Search.query(q): a new Search with q added
Query(queryset, q) == Append(queryset, q)

\* mutant: the clause is keyed by the logical name of the parameter
apply_query_geo_distance_by_name(queryset, options, value) ==
  Query(queryset,
        Q("geo_distance",
          get_geo_distance_params(value, split_lookup_filter(options.key, 1)[1])))

apply_query_geo_distance(queryset, options, value) ==
  Query(queryset, Q("geo_distance", get_geo_distance_params(value, options.field)))

(***************************************************************************)
(* get_filter_query_params.                                                *)
(***************************************************************************)
RECURSIVE StrippedValues(_)
\* [v.strip() for v in getlist(query_param) if v.strip() != '']
StrippedValues(raw) ==
  IF raw = <<>> THEN <<>>
  ELSE (IF Strip(Head(raw)) # <<>> THEN <<Strip(Head(raw))>> ELSE <<>>)
       \o StrippedValues(Tail(raw))

\* lookup_param of lines 156-158
LookupParam(query_param_list) ==
  IF Len(query_param_list) > 1 THEN PyStr(query_param_list[2]) ELSE PyNone

\* mutant: a parameter without lookup is not let through
LookupAllowed_needs_lookup(lookup_param, valid_lookups) ==
  lookup_param.type = "str" /\ InTuple(lookup_param.str, valid_lookups)

\* lookup_param is None or lookup_param in valid_lookups
LookupAllowed(lookup_param, valid_lookups) ==
  lookup_param.type = "None" \/ InTuple(lookup_param.str, valid_lookups)

\* filter_fields[field_name]['lookups'] raises KeyError for this key
RaisesKeyError(query_param, filter_fields) ==
  LET field_name == split_lookup_filter(query_param, 1)[1] IN
  /\ field_name \in DOMAIN filter_fields
  /\ "lookups" \notin filter_fields[field_name].keys

\* the loop body for one key: <<>> when skipped, else the record it stores
FilterQueryParam(query_param, raw, filter_fields) ==
  LET query_param_list == split_lookup_filter(query_param, 1)
      field_name       == query_param_list[1]
      lookup_param     == LookupParam(query_param_list)
      values           == StrippedValues(raw)
  IN IF /\ field_name \in DOMAIN filter_fields
        /\ LookupAllowed(lookup_param, filter_fields[field_name].lookups)
        /\ values # <<>>
     THEN << [key    |-> query_param,
              lookup |-> lookup_param,
              values |-> values,
              field  |-> IF "field" \in filter_fields[field_name].keys
                         THEN filter_fields[field_name].field
                         ELSE field_name,
              type   |-> ViewMapping] >>
     ELSE <<>>

RECURSIVE FilterQueryParams(_, _)
\* the loop of lines 148-179 over the request's keys, in their order
FilterQueryParams(query_params, filter_fields) ==
  IF query_params = <<>> THEN <<>>
  ELSE FilterQueryParam(Head(query_params).key, Head(query_params).values,
                        filter_fields)
       \o FilterQueryParams(Tail(query_params), filter_fields)

\* the value returned for a request on a view whose configuration is view_fields
get_filter_query_params(query_params, view_fields) ==
  FilterQueryParams(query_params, prepare_filter_fields(view_fields))

(***************************************************************************)
(* filter_queryset.                                                        *)
(***************************************************************************)
\* mutant: the disabled else branch applies the query for every lookup
ApplyValue_any_lookup(queryset, options, value) ==
  apply_query_geo_distance(queryset, options, value)

\* the body of the inner loop (lines 201-204)
ApplyValue(queryset, options, value) ==
  IF options.lookup = PyStr(LOOKUP_FILTER_GEO_DISTANCE)
  THEN apply_query_geo_distance(queryset, options, value)
  ELSE queryset

\* mutant: only the first value of a parameter is applied
ApplyValues_first_only(queryset, options, values) ==
  IF values = <<>> THEN queryset
  ELSE ApplyValue(queryset, options, Head(values))

RECURSIVE ApplyValues(_, _, _)
\* for value in options['values']
ApplyValues(queryset, options, values) ==
  IF values = <<>> THEN queryset
  ELSE ApplyValues(ApplyValue(queryset, options, Head(values)), options, Tail(values))

RECURSIVE ApplyOptions(_, _)
\* for options in filter_query_params.values()
ApplyOptions(queryset, filter_query_params) ==
  IF filter_query_params = <<>> THEN queryset
  ELSE ApplyOptions(ApplyValues(queryset, Head(filter_query_params),
                                Head(filter_query_params).values),
                    Tail(filter_query_params))

filter_queryset(query_params, queryset, view_fields) ==
  ApplyOptions(queryset, get_filter_query_params(query_params, view_fields))

(***************************************************************************)
(* Inputs.                                                                 *)
(***************************************************************************)
\* logical names a view declares
NameN == <<"n">>
NameNU == <<"n","_">>
\* a target field of the document
FieldT == <<"t">>

\* what a view may declare for the logical name n
DeclaredOptions ==
  { EntryNone, EntryStr(<<>>), EntryStr(FieldT),
    EntryDict({}, <<>>, <<>>),
    EntryDict({"field"}, FieldT, <<>>),
    EntryDict({"field"}, DISTANCE, <<>>),
    EntryDict({"lookups"}, <<>>, <<LOOKUP_FILTER_GEO_DISTANCE>>),
    EntryDict({"lookups"}, <<>>, <<GEO_POLYGON, LOOKUP_FILTER_GEO_DISTANCE>>),
    EntryDict({"field", "lookups"}, FieldT, <<GEO_POLYGON>>),
    EntryDict({"field", "lookups"}, FieldT, <<GEO_POLYGON, LOOKUP_FILTER_GEO_DISTANCE>>),
    EntryDict({"field", "lookups"}, DISTANCE_TYPE, <<LOOKUP_FILTER_GEO_DISTANCE>>) }

\* the declarations of geo_spatial_filter_fields: n, n_ or both
DeclaredFilterFields ==
  {(NameN :> o) : o \in DeclaredOptions}
  \cup {(NameNU :> EntryNone)}
  \cup {(NameN :> o) @@ (NameNU :> EntryNone) : o \in DeclaredOptions}

\* query parameter keys: n, n__geo_distance, n__geo_polygon, n___geo_distance
QueryParamKeys ==
  { NameN,
    NameN \o SEPARATOR_LOOKUP_FILTER \o LOOKUP_FILTER_GEO_DISTANCE,
    NameN \o SEPARATOR_LOOKUP_FILTER \o GEO_POLYGON,
    NameNU \o SEPARATOR_LOOKUP_FILTER \o LOOKUP_FILTER_GEO_DISTANCE }

\* raw values of a request: "5:1:2", " 6:1:2\n", "7:1:2:p", "5:1", " \t"
RequestValues ==
  { <<"5",":","1",":","2">>,
    <<" ","6",":","1",":","2","\n">>,
    <<"7",":","1",":","2",":","p">>,
    <<"5",":","1">>,
    <<" ","\t">> }

\* the non-empty lists of at most n raw values
ValueLists(n) == UNION {[1..k -> RequestValues] : k \in 1..n}

RECURSIVE QueryDicts(_, _, _)
\* request.query_params: at most maxParams keys out of keys, in any order,
\* each with one value or more, maxValues values in all at most
QueryDicts(keys, maxParams, maxValues) ==
  IF maxParams = 0 \/ maxValues = 0 THEN {<<>>}
  ELSE {<<>>} \cup
       UNION { UNION { { <<[key |-> k, values |-> vs]>> \o rest :
                         rest \in QueryDicts(keys \ {k}, maxParams - 1,
                                             maxValues - Len(vs)) } :
                       vs \in ValueLists(maxValues) } :
               k \in keys }

Requests == QueryDicts(QueryParamKeys, MaxParams, MaxValues)

\* the Search objects a view hands to filter_queryset
Querysets == {<<>>, <<Q("match_all", EmptyDict)>>}

\* characters of the raw values parsed on their own
Alphabet == {"a", "b", ":", " "}
RawValues == UNION {[1..k -> Alphabet] : k \in 0..MaxLen}
ParseFields == {FieldT, DISTANCE, DISTANCE_TYPE}

(***************************************************************************)
(* State.                                                                  *)
(***************************************************************************)
VARIABLES
  geo_spatial_filter_fields, \* the view's configuration, shared by requests
  declared,                  \* the configuration as the view declared it
  prepared,                  \* prepare_filter_fields has returned on the view
  op,                        \* the call in progress or just returned
  was_prepared,              \* prepared, when the call of op began
  query_params,              \* request.query_params of the request at hand
  queryset,                  \* the Search that was handed to filter_queryset
  filter_query_params,       \* what get_filter_query_params returned
  returned,                  \* what filter_queryset returned
  value, field, params,      \* get_geo_distance_params(value, field) = params
  pc,                        \* of each concurrent request: where its call stands
  pos,                       \* of each: the index of the entry its loop is at
  options,                   \* of each: the entry its loop read (line 69)
  requests,                  \* of each: its request.query_params
  results                    \* of each: what get_filter_query_params returned

vars == <<geo_spatial_filter_fields, declared, prepared, op, was_prepared,
          query_params, queryset, filter_query_params, returned,
          value, field, params, pc, pos, options, requests, results>>

parse_vars == <<value, field, params>>
conc_vars == <<pc, pos, options, requests, results>>
view_vars == <<geo_spatial_filter_fields, declared, prepared>>
request_vars == <<query_params, queryset, filter_query_params, returned>>

NoParse == /\ value = <<>>
           /\ field = <<>>
           /\ params = EmptyDict

\* the requests that run concurrently
Threads == {1, 2}

NoThreads == /\ pc = [t \in Threads |-> "idle"]
             /\ pos = [t \in Threads |-> 0]
             /\ options = [t \in Threads |-> EntryNone]
             /\ requests = [t \in Threads |-> <<>>]
             /\ results = [t \in Threads |-> <<>>]

NoRequest == /\ query_params = <<>>
             /\ queryset = <<>>
             /\ filter_query_params = <<>>
             /\ returned = <<>>

(***************************************************************************)
(* Requests handled one after another on one view.                         *)
(***************************************************************************)
Init ==
  /\ declared \in DeclaredFilterFields
  /\ geo_spatial_filter_fields = declared
  /\ prepared = FALSE
  /\ op = "idle"
  /\ was_prepared = FALSE
  /\ NoRequest
  /\ NoParse
  /\ NoThreads

\* a request arrives with its query parameters
Receive ==
  /\ op = "idle"
  /\ \E r \in Requests : query_params' = r
  /\ op' = "request"
  /\ UNCHANGED <<view_vars, was_prepared, queryset, filter_query_params, returned,
                 parse_vars, conc_vars>>

\* prepare_filter_fields(view), called on its own
PrepareFilterFields ==
  /\ op = "idle"
  /\ geo_spatial_filter_fields' = prepare_filter_fields(geo_spatial_filter_fields)
  /\ prepared' = TRUE
  /\ was_prepared' = prepared
  /\ op' = "prepare_filter_fields"
  /\ UNCHANGED <<declared, request_vars, parse_vars, conc_vars>>

\* get_filter_query_params(request, view)
GetFilterQueryParams ==
  /\ op = "request"
  /\ geo_spatial_filter_fields' = prepare_filter_fields(geo_spatial_filter_fields)
  /\ prepared' = TRUE
  /\ was_prepared' = prepared
  /\ filter_query_params' =
       get_filter_query_params(query_params, geo_spatial_filter_fields)
  /\ op' = "get_filter_query_params"
  /\ UNCHANGED <<declared, query_params, queryset, returned, parse_vars, conc_vars>>

\* filter_queryset(request, queryset, view), for a Search of the view
FilterQueryset ==
  /\ op = "request"
  /\ geo_spatial_filter_fields' = prepare_filter_fields(geo_spatial_filter_fields)
  /\ prepared' = TRUE
  /\ was_prepared' = prepared
  /\ filter_query_params' =
       get_filter_query_params(query_params, geo_spatial_filter_fields)
  /\ \E q \in Querysets :
       /\ queryset' = q
       /\ returned' = filter_queryset(query_params, q, geo_spatial_filter_fields)
  /\ op' = "filter_queryset"
  /\ UNCHANGED <<declared, query_params, parse_vars, conc_vars>>

\* the call has returned and its request is over
Finish ==
  /\ op \in {"prepare_filter_fields", "get_filter_query_params", "filter_queryset"}
  /\ op' = "idle"
  /\ was_prepared' = FALSE
  /\ query_params' = <<>>
  /\ queryset' = <<>>
  /\ filter_query_params' = <<>>
  /\ returned' = <<>>
  /\ UNCHANGED <<view_vars, parse_vars, conc_vars>>

Next ==
  \/ Receive
  \/ PrepareFilterFields
  \/ GetFilterQueryParams
  \/ FilterQueryset
  \/ Finish

Spec == Init /\ [][Next]_vars

(***************************************************************************)
(* get_geo_distance_params on its own.                                     *)
(***************************************************************************)
InitParse ==
  /\ value \in RawValues
  /\ field \in ParseFields
  /\ params = EmptyDict
  /\ op = "idle"
  /\ declared = (NameN :> EntryNone)
  /\ geo_spatial_filter_fields = declared
  /\ prepared = FALSE
  /\ was_prepared = FALSE
  /\ NoRequest
  /\ NoThreads

GetGeoDistanceParams ==
  /\ op = "idle"
  /\ params' = get_geo_distance_params(value, field)
  /\ op' = "get_geo_distance_params"
  /\ UNCHANGED <<view_vars, was_prepared, request_vars, value, field, conc_vars>>

NextParse == GetGeoDistanceParams

SpecParse == InitParse /\ [][NextParse]_vars

(***************************************************************************)
(* Two requests on one view at once.  prepare_filter_fields takes, for     *)
(* each entry, three steps: it reads the entry (line 69), writes the entry *)
(* (lines 70-75) and writes its 'lookups' (lines 77-80).  The extractor    *)
(* then reads the view's entries for the request's keys (lines 148-179).   *)
(***************************************************************************)
\* the keys of geo_spatial_filter_fields in the order items() yields them
FieldOrder(filter_fields) ==
  SelectSeq(<<NameN, NameNU>>, LAMBDA name : name \in DOMAIN filter_fields)

\* views that declare null or a plain string for every name
ConcurrentDeclared ==
  {(NameN :> o) : o \in {EntryNone, EntryStr(FieldT)}}
  \cup {(NameN :> o) @@ (NameNU :> EntryNone) : o \in {EntryNone, EntryStr(FieldT)}}

\* the requests of the concurrent run
ConcurrentRequests ==
  { << [key    |-> NameN \o SEPARATOR_LOOKUP_FILTER \o LOOKUP_FILTER_GEO_DISTANCE,
        values |-> << <<"5",":","1",":","2">> >>] >>,
    << [key |-> NameN, values |-> << <<"5",":","1">> >>] >> }

InitConcurrent ==
  /\ declared \in ConcurrentDeclared
  /\ geo_spatial_filter_fields = declared
  /\ requests \in [Threads -> ConcurrentRequests]
  /\ pc = [t \in Threads |-> "iterate"]
  /\ pos = [t \in Threads |-> 1]
  /\ options = [t \in Threads |-> EntryNone]
  /\ results = [t \in Threads |-> <<>>]
  /\ prepared = FALSE
  /\ was_prepared = FALSE
  /\ op = "idle"
  /\ NoRequest
  /\ NoParse

\* for field, options in filter_fields.items(): the next entry, or the end
ReadEntry(t) ==
  /\ pc[t] = "iterate"
  /\ LET order == FieldOrder(geo_spatial_filter_fields) IN
     IF pos[t] > Len(order)
     THEN /\ pc' = [pc EXCEPT ![t] = "extract"]
          /\ UNCHANGED options
     ELSE /\ options' = [options EXCEPT ![t] = geo_spatial_filter_fields[order[pos[t]]]]
          /\ pc' = [pc EXCEPT ![t] = "write_entry"]
  /\ UNCHANGED <<geo_spatial_filter_fields, pos, requests, results>>
  /\ UNCHANGED <<declared, prepared, op, was_prepared, request_vars, parse_vars>>

\* lines 70-75: the branch is taken on the entry read, the write goes to the view
WriteEntry(t) ==
  /\ pc[t] = "write_entry"
  /\ LET name == FieldOrder(geo_spatial_filter_fields)[pos[t]] IN
     geo_spatial_filter_fields' =
       [geo_spatial_filter_fields EXCEPT ![name] =
          IF IsNoneOrString(options[t]) THEN NewEntry(options[t], name)
          ELSE IF "field" \notin @.keys THEN SetField(@, name)
          ELSE @]
  /\ pc' = [pc EXCEPT ![t] = "write_lookups"]
  /\ UNCHANGED <<pos, options, requests, results>>
  /\ UNCHANGED <<declared, prepared, op, was_prepared, request_vars, parse_vars>>

\* lines 77-80, on the entry the view holds now
WriteLookups(t) ==
  /\ pc[t] = "write_lookups"
  /\ LET name == FieldOrder(geo_spatial_filter_fields)[pos[t]] IN
     geo_spatial_filter_fields' =
       [geo_spatial_filter_fields EXCEPT ![name] = PrepareLookups(@)]
  /\ pos' = [pos EXCEPT ![t] = @ + 1]
  /\ pc' = [pc EXCEPT ![t] = "iterate"]
  /\ UNCHANGED <<options, requests, results>>
  /\ UNCHANGED <<declared, prepared, op, was_prepared, request_vars, parse_vars>>

\* the request's keys hit an entry without 'lookups' (line 160)
SomeKeyRaises(query_dict, filter_fields) ==
  \E i \in 1..Len(query_dict) : RaisesKeyError(query_dict[i].key, filter_fields)

\* lines 148-180: the extractor's loop, which ends in KeyError or returns
Extract(t) ==
  /\ pc[t] = "extract"
  /\ IF SomeKeyRaises(requests[t], geo_spatial_filter_fields)
     THEN /\ pc' = [pc EXCEPT ![t] = "KeyError"]
          /\ UNCHANGED results
     ELSE /\ pc' = [pc EXCEPT ![t] = "returned"]
          /\ results' = [results EXCEPT ![t] =
               FilterQueryParams(requests[t], geo_spatial_filter_fields)]
  /\ UNCHANGED <<geo_spatial_filter_fields, pos, options, requests>>
  /\ UNCHANGED <<declared, prepared, op, was_prepared, request_vars, parse_vars>>

NextConcurrent ==
  \E t \in Threads :
    \/ ReadEntry(t)
    \/ WriteEntry(t)
    \/ WriteLookups(t)
    \/ Extract(t)

SpecConcurrent == InitConcurrent /\ [][NextConcurrent]_vars

(***************************************************************************)
(* Properties.  The components of a value and the parts of a key are       *)
(* stated here by what they are, not by how split computes them.           *)
(***************************************************************************)
IsDelimiter(c) == <<c>> = SEPARATOR_LOOKUP_VALUE
\* the number of delimiters in s
Delimiters(s) == Cardinality({i \in 1..Len(s) : IsDelimiter(s[i])})
NoDelimiter(s) == Delimiters(s) = 0
Join3(a, b, c) == a \o SEPARATOR_LOOKUP_VALUE \o b \o SEPARATOR_LOOKUP_VALUE \o c
Join4(a, b, c, d) == Join3(a, b, c) \o SEPARATOR_LOOKUP_VALUE \o d

\* p is {distance: d, f: {lat, lon}, distance_type: X} for the components of
\* v: d, lat and lon hold no delimiter, X is the default when v has three
\* components and else all that follows the third delimiter
IsGeoDistanceParams(p, v, f) ==
  /\ DOMAIN p = {DISTANCE, f, DISTANCE_TYPE}
  /\ p[DISTANCE].type = "str"
  /\ p[f].type = "dict"
  /\ p[DISTANCE_TYPE].type = "str"
  /\ NoDelimiter(p[DISTANCE].str)
  /\ NoDelimiter(p[f].lat)
  /\ NoDelimiter(p[f].lon)
  /\ IF Delimiters(v) = 2
     THEN /\ v = Join3(p[DISTANCE].str, p[f].lat, p[f].lon)
          /\ p[DISTANCE_TYPE].str = SLOPPY_ARC
     ELSE v = Join4(p[DISTANCE].str, p[f].lat, p[f].lon, p[DISTANCE_TYPE].str)

\* C3 as stated: get_geo_distance_params(value, field) is the empty mapping
\* when value has fewer than 3 components, and else maps distance to the
\* first component, field to {lat: second, lon: third} and distance_type to
\* the fourth component (the whole remainder) or 'sloppy_arc' when there is
\* none, for every field.
C3_AsStated ==
  op = "get_geo_distance_params" =>
    IF Delimiters(value) < 2 THEN params = EmptyDict
    ELSE IsGeoDistanceParams(params, value, field)

\* the substrings of s
Pieces(s) == {SubSeq(s, i, j) : i \in 1..Len(s) + 1, j \in 0..Len(s)}

\* C3 amended: the same for a field named neither 'distance' nor
\* 'distance_type'.  For a field named 'distance' the result is
\* {distance: {lat, lon}, distance_type: X}, the point standing where the
\* first component would, and for a field named 'distance_type' it is
\* {distance: first component, distance_type: X}, without the point.
C3_GeoDistanceParams ==
  op = "get_geo_distance_params" =>
    IF Delimiters(value) < 2 THEN params = EmptyDict
    ELSE IF field = DISTANCE
    THEN /\ DOMAIN params = {DISTANCE, DISTANCE_TYPE}
         /\ \E d \in Pieces(value) :
              IsGeoDistanceParams(
                (FieldT :> params[DISTANCE]) @@ (DISTANCE :> ParamStr(d))
                  @@ (DISTANCE_TYPE :> params[DISTANCE_TYPE]),
                value, FieldT)
    ELSE IF field = DISTANCE_TYPE
    THEN /\ DOMAIN params = {DISTANCE, DISTANCE_TYPE}
         /\ \E la, lo \in Pieces(value) :
              IsGeoDistanceParams((FieldT :> ParamPoint(la, lo)) @@ params,
                                  value, FieldT)
    ELSE IsGeoDistanceParams(params, value, field)

\* C3 witness: a value of more than 3 delimiters was parsed for an ordinary
\* field, and its distance type holds a delimiter
C3_Witness ==
  /\ op = "get_geo_distance_params"
  /\ field = FieldT
  /\ Delimiters(value) > 3
  /\ DISTANCE_TYPE \in DOMAIN params
  /\ ~NoDelimiter(params[DISTANCE_TYPE].str)

\* the entry stays as declared in the keys it declared
KeepsDeclared(entry, decl) ==
  /\ "field" \in decl.keys => entry.field = decl.field
  /\ "lookups" \in decl.keys => entry.lookups = decl.lookups

\* the target field C5 states for a declaration
StatedField(decl, name) ==
  IF decl.type = "None" THEN name
  ELSE IF decl.type = "str" THEN decl.str
  ELSE IF "field" \in decl.keys THEN decl.field
  ELSE name

\* C5 as stated: after prepare_filter_fields every entry has a target field
\* and lookups; null gives the logical name, a plain string gives that
\* string, a partial object keeps what it declared and has a missing target
\* field filled with the logical name; missing lookups are the full set; the
\* logical names are unchanged.
C5_AsStated ==
  prepared =>
    /\ DOMAIN geo_spatial_filter_fields = DOMAIN declared
    /\ \A name \in DOMAIN declared :
         LET entry == geo_spatial_filter_fields[name]
             decl  == declared[name]
         IN /\ entry.type = "dict"
            /\ entry.keys = {"field", "lookups"}
            /\ entry.field = StatedField(decl, name)
            /\ KeepsDeclared(entry, decl)
            /\ "lookups" \notin decl.keys =>
                 entry.lookups = ALL_GEO_SPATIAL_LOOKUP_FILTERS_AND_QUERIES

\* C5 amended: the same, but a plain string gives that string only when it
\* is not empty; the empty string gives the logical name, as null does.
C5_PreparedEntries ==
  prepared =>
    /\ DOMAIN geo_spatial_filter_fields = DOMAIN declared
    /\ \A name \in DOMAIN declared :
         LET entry == geo_spatial_filter_fields[name]
             decl  == declared[name]
         IN /\ entry.type = "dict"
            /\ entry.keys = {"field", "lookups"}
            /\ entry.field = IF decl = EntryStr(<<>>) THEN name
                             ELSE StatedField(decl, name)
            /\ KeepsDeclared(entry, decl)
            /\ "lookups" \notin decl.keys =>
                 entry.lookups = ALL_GEO_SPATIAL_LOOKUP_FILTERS_AND_QUERIES

\* C5 witness: prepare_filter_fields has returned on a view that declared a
\* plain string for one name and null for another
C5_Witness ==
  /\ op = "prepare_filter_fields"
  /\ DOMAIN declared = {NameN, NameNU}
  /\ declared[NameN] = EntryStr(FieldT)
  /\ geo_spatial_filter_fields[NameN].field = FieldT
  /\ geo_spatial_filter_fields[NameNU].field = NameNU

(***************************************************************************)
(* Keys and values of a request, stated by what they are.                  *)
(***************************************************************************)
\* the separator occurs in k at index i
SeparatorAt(k, i) ==
  /\ i >= 1
  /\ i + 1 <= Len(k)
  /\ <<k[i], k[i + 1]>> = SEPARATOR_LOOKUP_FILTER

HasSeparator(k) == \E i \in 1..Len(k) : SeparatorAt(k, i)

\* k is p, the separator and s, and no separator begins in k before that one
FirstSeparator(k, p, s) ==
  /\ k = p \o SEPARATOR_LOOKUP_FILTER \o s
  /\ \A i \in 1..Len(p) : ~SeparatorAt(k, i)

\* the index at which the first separator of k begins
FirstSeparatorAt(k) ==
  CHOOSE i \in 1..Len(k) :
    /\ SeparatorAt(k, i)
    /\ \A j \in 1..(i - 1) : ~SeparatorAt(k, j)

\* the part of k before its first separator, k itself when it has none
PrefixOf(k) ==
  IF HasSeparator(k) THEN SubSeq(k, 1, FirstSeparatorAt(k) - 1) ELSE k

\* the lookup suffix of k: all that follows its first separator, or null
SuffixOf(k) ==
  IF HasSeparator(k)
  THEN PyStr(SubSeq(k, FirstSeparatorAt(k) + Len(SEPARATOR_LOOKUP_FILTER), Len(k)))
  ELSE PyNone

\* the indices of the characters of v that are not whitespace
NonBlank(v) == {i \in 1..Len(v) : v[i] \notin Whitespace}

\* v without the whitespace at its ends
TrimOf(v) ==
  IF NonBlank(v) = {} THEN <<>>
  ELSE SubSeq(v,
              CHOOSE i \in NonBlank(v) : \A j \in NonBlank(v) : i <= j,
              CHOOSE i \in NonBlank(v) : \A j \in NonBlank(v) : i >= j)

NonEmpty(v) == v # <<>>

\* the trimmed non-empty values of raw, in their order
TrimmedValues(raw) == SelectSeq([i \in 1..Len(raw) |-> TrimOf(raw[i])], NonEmpty)

\* the extractor keeps the query parameter qp under the configuration ff
Accepted(qp, ff) ==
  /\ PrefixOf(qp.key) \in DOMAIN ff
  /\ \/ SuffixOf(qp.key) = PyNone
     \/ InTuple(SuffixOf(qp.key).str, ff[PrefixOf(qp.key)].lookups)
  /\ \E i \in 1..Len(qp.values) : TrimOf(qp.values[i]) # <<>>

AcceptedHere(qp) == Accepted(qp, geo_spatial_filter_fields)

\* the lookup suffix of the parameter is exactly 'geo_distance'
IsGeoDistanceParam(qp) == SuffixOf(qp.key) = PyStr(LOOKUP_FILTER_GEO_DISTANCE)

\* C4: a key of the request is a key of get_filter_query_params' result iff
\* its prefix before the first separator is a configured name, it has no
\* suffix or its suffix is among that field's lookups, and one of its values
\* is non-empty after trimming; the record has the suffix or null as lookup,
\* the configured target field, and the trimmed non-empty values in order.
C4_FilterQueryParams ==
  op \in {"get_filter_query_params", "filter_queryset"} =>
    LET kept == SelectSeq(query_params, AcceptedHere) IN
    /\ Len(filter_query_params) = Len(kept)
    /\ \A i \in 1..Len(kept) :
         /\ filter_query_params[i].key = kept[i].key
         /\ filter_query_params[i].lookup = SuffixOf(kept[i].key)
         /\ filter_query_params[i].field =
              geo_spatial_filter_fields[PrefixOf(kept[i].key)].field
         /\ filter_query_params[i].values = TrimmedValues(kept[i].values)

\* C4 witness: of two parameters the extractor kept one, whose values it
\* trimmed, and dropped the other
C4_Witness ==
  /\ op = "get_filter_query_params"
  /\ Len(query_params) = 2
  /\ Len(filter_query_params) = 1
  /\ filter_query_params[1].key = query_params[2].key
  /\ filter_query_params[1].lookup = PyStr(LOOKUP_FILTER_GEO_DISTANCE)
  /\ filter_query_params[1].values # query_params[2].values

(***************************************************************************)
(* filter_queryset.                                                        *)
(***************************************************************************)
\* q is base with exactly one clause added, a geo_distance clause whose
\* parameters are those of the components of v, keyed by the field f
OneClauseAdded(q, base, v, f) ==
  /\ Len(q) = Len(base) + 1
  /\ SubSeq(q, 1, Len(base)) = base
  /\ q[Len(q)].name = "geo_distance"
  /\ IsGeoDistanceParams(q[Len(q)].params, v, f)

\* the request has the one parameter n__geo_distance with the one value
\* 'd:lat:lon', and n is configured with lookups that hold 'geo_distance'
C1_Case(n) ==
  /\ op = "filter_queryset"
  /\ Len(query_params) = 1
  /\ Len(query_params[1].values) = 1
  /\ Delimiters(query_params[1].values[1]) = 2
  /\ n \in DOMAIN geo_spatial_filter_fields
  /\ query_params[1].key =
       n \o SEPARATOR_LOOKUP_FILTER \o LOOKUP_FILTER_GEO_DISTANCE
  /\ InTuple(LOOKUP_FILTER_GEO_DISTANCE, geo_spatial_filter_fields[n].lookups)

\* C1 as stated: in that case filter_queryset returns the input builder
\* extended by exactly one geo_distance clause with distance = d,
\* t = {lat, lon} for the target field t of n, distance_type = 'sloppy_arc'.
C1_AsStated ==
  \A n \in DOMAIN declared :
    C1_Case(n) =>
      OneClauseAdded(returned, queryset, query_params[1].values[1],
                     geo_spatial_filter_fields[n].field)

\* what C1 leaves out: the separator that follows n is the first of the key
\* (n holds no separator and does not end with an underscore), t is neither
\* 'distance' nor 'distance_type', and the value has no whitespace at its ends
C1_Plain(n) ==
  /\ FirstSeparator(query_params[1].key, n, LOOKUP_FILTER_GEO_DISTANCE)
  /\ geo_spatial_filter_fields[n].field \notin {DISTANCE, DISTANCE_TYPE}
  /\ TrimOf(query_params[1].values[1]) = query_params[1].values[1]

\* C1 amended: C1 for a logical name that holds no separator and does not
\* end with an underscore, a target field other than 'distance' and
\* 'distance_type', and a value without whitespace at its ends.
C1_EndToEnd ==
  \A n \in DOMAIN declared :
    (C1_Case(n) /\ C1_Plain(n)) =>
      OneClauseAdded(returned, queryset, query_params[1].values[1],
                     geo_spatial_filter_fields[n].field)

\* C1 witness: n declared with the target field t, n__geo_distance = 5:1:2,
\* and the clause added to a builder that held one is keyed by t
C1_Witness ==
  /\ C1_Case(NameN)
  /\ C1_Plain(NameN)
  /\ declared[NameN] = EntryDict({"field"}, FieldT, <<>>)
  /\ Len(queryset) = 1
  /\ Len(returned) = 2
  /\ returned[2].params[FieldT] = ParamPoint(<<"1">>, <<"2">>)
  /\ returned[2].params[DISTANCE] = ParamStr(<<"5">>)

\* C2 as stated: when every value of the accepted geo_distance parameters
\* has fewer than 3 components, filter_queryset returns the builder with
\* the clauses it was given.
C2_AsStated ==
  ( /\ op = "filter_queryset"
    /\ \A i \in 1..Len(query_params) :
         (AcceptedHere(query_params[i]) /\ IsGeoDistanceParam(query_params[i])) =>
           \A j \in 1..Len(query_params[i].values) :
             Delimiters(query_params[i].values[j]) < 2 )
  => returned = queryset

\* the clause filter_queryset adds for the value v of a parameter of field f
ClauseOf(v, f) == Q("geo_distance", get_geo_distance_params(TrimOf(v), f))

\* C6: the values v1..vk of one accepted geo_distance key, each of 3
\* components or more, give the input builder's clauses followed by the
\* clauses of v1, ..., vk in that order (each the clause of the value as the
\* extractor hands it on, trimmed).
C6_RepeatedValues ==
  ( /\ op = "filter_queryset"
    /\ Len(query_params) = 1
    /\ AcceptedHere(query_params[1])
    /\ IsGeoDistanceParam(query_params[1])
    /\ \A j \in 1..Len(query_params[1].values) :
         Delimiters(query_params[1].values[j]) >= 2 )
  => returned =
       queryset \o
       [j \in 1..Len(query_params[1].values) |->
          ClauseOf(query_params[1].values[j],
                   geo_spatial_filter_fields[PrefixOf(query_params[1].key)].field)]

\* C6 witness: two different values of one key gave two clauses after the
\* clause the builder held
C6_Witness ==
  /\ op = "filter_queryset"
  /\ Len(query_params) = 1
  /\ Len(query_params[1].values) >= 2
  /\ query_params[1].values[1] # query_params[1].values[2]
  /\ \A j \in 1..Len(query_params[1].values) :
       Delimiters(query_params[1].values[j]) >= 2
  /\ Len(queryset) = 1
  /\ Len(returned) = 1 + Len(query_params[1].values)
  /\ returned[2] # returned[3]

\* C7: a parameter whose lookup is not exactly 'geo_distance' adds no
\* clause: the builder returned is the one returned for the request's
\* geo_distance parameters alone, and the input builder when it has none.
C7_OtherLookupsInert ==
  op = "filter_queryset" =>
    /\ returned = filter_queryset(SelectSeq(query_params, IsGeoDistanceParam),
                                  queryset, geo_spatial_filter_fields)
    /\ (\A i \in 1..Len(query_params) : ~IsGeoDistanceParam(query_params[i]))
         => returned = queryset

\* C7 witness: the extractor kept a parameter without lookup and one of the
\* lookup geo_polygon, and the builder came back as it was
C7_Witness ==
  /\ op = "filter_queryset"
  /\ Len(filter_query_params) = 2
  /\ filter_query_params[1].lookup = PyNone
  /\ filter_query_params[2].lookup = PyStr(GEO_POLYGON)
  /\ Len(queryset) = 1
  /\ returned = queryset

\* C8: once prepare_filter_fields has returned on the view, no call changes
\* the view's configuration, and no call changes the request's parameters.
C8_ConfigurationImmutable ==
  [][ /\ prepared => geo_spatial_filter_fields' = geo_spatial_filter_fields
      /\ op = "request" => query_params' = query_params ]_vars

\* C8 witness: a call returned on a view that an earlier call had prepared,
\* and whose configuration is not the one declared
C8_Witness ==
  /\ op \in {"prepare_filter_fields", "get_filter_query_params", "filter_queryset"}
  /\ was_prepared
  /\ geo_spatial_filter_fields # declared

\* C10: what filter_queryset returns for a request is what it returns for
\* that request on the configuration as declared, whatever calls came before.
C10_RequestsIndependent ==
  op = "filter_queryset" =>
    returned = filter_queryset(query_params, queryset, declared)

\* C10 witness: a request added a clause on a view that earlier calls had
\* prepared, and whose configuration is not the one declared
C10_Witness ==
  /\ op = "filter_queryset"
  /\ was_prepared
  /\ geo_spatial_filter_fields # declared
  /\ Len(returned) > Len(queryset)

(***************************************************************************)
(* Concurrent requests.                                                    *)
(***************************************************************************)
\* C9 as stated: with two requests interleaved on a view that starts
\* un-normalized, no request raises: every entry a request's extractor
\* reads after its own normalization has 'field' and 'lookups'.
C9_AsStated == \A t \in Threads : pc[t] # "KeyError"

====
